---------------------------- MODULE Spec2Model ----------------------------
(***************************************************************************)
(* Aethelgard (KeyStone-Game): the rules engine of src/utils/gameLogic.ts  *)
(* and the zustand game store (stores/gameStore.ts).                       *)
(*                                                                         *)
(* A board is the map from its occupied cells to their stoneType; every    *)
(* other cell of the 17x17 grid is 'empty'.  The display-only parts of a   *)
(* cell (isHighlighted, isConvertible, isResonating, notation) never enter *)
(* a rule and are left out.                                                *)
(***************************************************************************)
EXTENDS Integers, Sequences, FiniteSets, TLC

VARIABLES store, timers, lastCmd, played, arg, ret, twin, heap

vars == <<store, timers, lastCmd, played, arg, ret, twin, heap>>

---------------------------------------------------------------------------
(* Bounds of the model.                                                    *)

\* resonance inputs: lanes of RayCols cells beside the core, each holding at
\* most LaneStones stones
RayCols == 5
LaneStones == 2
\* columns of the windows the pattern functions are tried on
PatternCols == 3
\* placement inputs are drawn from rows 0..MaxRow and columns 0..MaxCol
MaxRow == 1
MaxCol == 1
\* commands after the opening that rewrite moveHistory
MaxMoves == 2
\* the model keeps the most recent LogWindow entries of eventLog
LogWindow == 3
\* win-check inputs: lines of WinSpan cells starting in 0..WinOrigin
WinSpan == 7
WinOrigin == 1
BlockCols == 3
\* setTimeout callbacks of resetGame that may be pending at once
MaxTimers == 1
\* commands issued to the two runs of the twin specification
TwinMoves == 2

---------------------------------------------------------------------------
(* gameTypes.ts / gameLogic.ts: positions, stones, the board.              *)

BOARD_SIZE == 17

Player == {"black", "white"}

StoneType == {"empty", "blackConduit", "whiteConduit", "blackKeystone", "whiteKeystone"}

Pos(r, c) == [row |-> r, col |-> c]

AllPositions == {Pos(r, c) : r \in 0..(BOARD_SIZE - 1), c \in 0..(BOARD_SIZE - 1)}

Conduit(player) == IF player = "black" THEN "blackConduit" ELSE "whiteConduit"

Keystone(player) == IF player = "black" THEN "blackKeystone" ELSE "whiteKeystone"

\* the turn is not handed over
SamePlayer(player) == player

Opponent(player) == IF player = "black" THEN "white" ELSE "black"

\* stoneType.includes('black') ? 'black' : 'white'
OwnerOf(stoneType) == IF stoneType \in {"blackConduit", "blackKeystone"} THEN "black" ELSE "white"

createEmptyBoard == [p \in {} |-> "empty"]

\* board[row][col].stoneType
StoneAt(board, p) == IF p \in DOMAIN board THEN board[p] ELSE "empty"

\* board[row][col].stoneType = stoneType
SetStone(board, p, stoneType) ==
    [q \in (DOMAIN board) \cup {p} |-> IF q = p THEN stoneType ELSE board[q]]

isValidPosition(p) ==
    p.row >= 0 /\ p.row < BOARD_SIZE /\ p.col >= 0 /\ p.col < BOARD_SIZE

\* the order of the nested row / col loops
RowMajorKey(p) == p.row * BOARD_SIZE + p.col

RECURSIVE RowMajor(_)
RowMajor(S) ==
    IF S = {} THEN << >>
    ELSE LET first == CHOOSE p \in S : \A q \in S : RowMajorKey(p) <= RowMajorKey(q)
         IN  <<first>> \o RowMajor(S \ {first})

getEmptyPositions(board) == AllPositions \ (DOMAIN board)

getConduitStones(board, player) ==
    RowMajor({p \in DOMAIN board : board[p] = Conduit(player)})

getKeystoneStones(board, player) ==
    RowMajor({p \in DOMAIN board : board[p] = Keystone(player)})

---------------------------------------------------------------------------
(* gameLogic.ts: the win check.                                            *)

\* Array.prototype.sort with a numeric comparator (stable insertion)
RECURSIVE SortKeyed(_)
SortKeyed(pairs) ==
    IF pairs = << >> THEN << >>
    ELSE LET n == Len(pairs)
             front == SortKeyed(SubSeq(pairs, 1, n - 1))
         IN  \* an equal key stays behind the earlier element: the sort is stable
             LET RECURSIVE Ins(_)
                 Ins(s) == IF s = << >> THEN <<pairs[n]>>
                           ELSE IF pairs[n][1] < Head(s)[1] THEN <<pairs[n]>> \o s
                           ELSE <<Head(s)>> \o Ins(Tail(s))
             IN  Ins(front)

SortNumbers(numbers) ==
    LET s == SortKeyed([i \in 1..Len(numbers) |-> <<numbers[i], numbers[i]>>])
    IN  [i \in 1..Len(s) |-> s[i][2]]

SortByRow(positions) ==
    LET s == SortKeyed([i \in 1..Len(positions) |-> <<positions[i].row, positions[i]>>])
    IN  [i \in 1..Len(s) |-> s[i][2]]

isConsecutive(numbers) ==
    LET sorted == SortNumbers(numbers)
    IN  \A i \in 2..Len(sorted) : sorted[i] = sorted[i - 1] + 1

isHorizontal(positions) ==
    /\ \A i \in 1..Len(positions) : positions[i].row = positions[1].row
    /\ isConsecutive([i \in 1..Len(positions) |-> positions[i].col])

isVertical(positions) ==
    /\ \A i \in 1..Len(positions) : positions[i].col = positions[1].col
    /\ isConsecutive([i \in 1..Len(positions) |-> positions[i].row])

isMainDiagonal(positions) ==
    LET sorted == SortByRow(positions)
    IN  \A i \in 1..Len(sorted) :
            /\ sorted[i].row = sorted[1].row + (i - 1)
            /\ sorted[i].col = sorted[1].col + (i - 1)

isAntiDiagonalWrongSign(positions) ==
    LET sorted == SortByRow(positions)
    IN  \A i \in 1..Len(sorted) :
            /\ sorted[i].row = sorted[1].row + (i - 1)
            /\ sorted[i].col = sorted[1].col + (i - 1)

isAntiDiagonal(positions) ==
    LET sorted == SortByRow(positions)
    IN  \A i \in 1..Len(sorted) :
            /\ sorted[i].row = sorted[1].row + (i - 1)
            /\ sorted[i].col = sorted[1].col - (i - 1)

isDiagonal(positions) == isMainDiagonal(positions) \/ isAntiDiagonal(positions)

isInLine(positions) ==
    isHorizontal(positions) \/ isVertical(positions) \/ isDiagonal(positions)

RECURSIVE Flatten(_)
Flatten(seqs) == IF seqs = << >> THEN << >> ELSE Head(seqs) \o Flatten(Tail(seqs))

RECURSIVE getCombinations(_, _)
getCombinations(array, r) ==
    IF r = 1 THEN [i \in 1..Len(array) |-> <<array[i]>>]
    ELSE IF r = Len(array) THEN <<array>>
    ELSE Flatten([i \in 1..(IF Len(array) - r + 1 > 0 THEN Len(array) - r + 1 ELSE 0) |->
                    LET tailCombinations ==
                            getCombinations(SubSeq(array, i + 1, Len(array)), r - 1)
                    IN  [k \in 1..Len(tailCombinations) |-> <<array[i]>> \o tailCombinations[k]]])

checkWinCondition(board, player) ==
    LET keystonePositions == getKeystoneStones(board, player)
    IN  IF Len(keystonePositions) < 5 THEN FALSE
        ELSE LET combinations == getCombinations(keystonePositions, 5)
             IN  \E k \in 1..Len(combinations) : isInLine(combinations[k])

---------------------------------------------------------------------------
(* gameLogic.ts: bent triples and cores.                                   *)

Abs(n) == IF n < 0 THEN 0 - n ELSE n

\* adjacency that also counts the diagonal neighbours
areTouching(pos1, pos2) ==
    /\ pos1 # pos2
    /\ Abs(pos1.row - pos2.row) <= 1
    /\ Abs(pos1.col - pos2.col) <= 1

areAdjacent(pos1, pos2) ==
    LET rowDiff == Abs(pos1.row - pos2.row)
        colDiff == Abs(pos1.col - pos2.col)
    IN  (rowDiff = 1 /\ colDiff = 0) \/ (rowDiff = 0 /\ colDiff = 1)

isLShape(stones) ==
    IF Len(stones) # 3 THEN FALSE
    ELSE LET adjacentCount ==
                 (IF areAdjacent(stones[1], stones[2]) THEN 1 ELSE 0)
               + (IF areAdjacent(stones[2], stones[3]) THEN 1 ELSE 0)
               + (IF areAdjacent(stones[1], stones[3]) THEN 1 ELSE 0)
         IN  adjacentCount = 2

\* the stub of gameLogic.ts: always 'L'
getLShapeType(stones) == "L"

detectLShapes(board, player) ==
    LET conduitStones == getConduitStones(board, player)
        n == Len(conduitStones)
        \* i < j < k, 1-based
        forK(i, j) == [k \in 1..(n - j) |->
                        LET threeStones == <<conduitStones[i], conduitStones[j], conduitStones[j + k]>>
                        IN  IF isLShape(threeStones)
                            THEN <<[stones |-> threeStones, type |-> getLShapeType(threeStones)]>>
                            ELSE << >>]
        forJ(i) == [d \in 1..(IF n - 1 - i > 0 THEN n - 1 - i ELSE 0) |-> Flatten(forK(i, i + d))]
    IN  Flatten([i \in 1..(IF n - 2 > 0 THEN n - 2 ELSE 0) |-> Flatten(forJ(i))])

\* a core test that accepts conductors only
isConduitCore(cells, player) ==
    \A i \in 1..Len(cells) : cells[i] = Conduit(player)

isValidCore(cells, player) ==
    \A i \in 1..Len(cells) : cells[i] = Conduit(player) \/ cells[i] = Keystone(player)

\* the four cells of the 2x2 block anchored at (row, col), as detectCores reads them
FourPositions(row, col) ==
    <<Pos(row, col), Pos(row, col + 1), Pos(row + 1, col), Pos(row + 1, col + 1)>>

CoreAt(board, row, col) ==
    [positions |-> FourPositions(row, col),
     stones |-> [i \in 1..4 |-> StoneAt(board, FourPositions(row, col)[i])]]

detectCores(board, player) ==
    LET anchors == {a \in AllPositions :
                      /\ a.row < BOARD_SIZE - 1 /\ a.col < BOARD_SIZE - 1
                      /\ isValidCore(CoreAt(board, a.row, a.col).stones, player)}
        ordered == RowMajor(anchors)
    IN  [i \in 1..Len(ordered) |-> CoreAt(board, ordered[i].row, ordered[i].col)]

\* only the block anchored at the new stone is examined
detectCoresAtNewStone(board, player, newPosition) ==
    IF /\ newPosition.row >= 0 /\ newPosition.row < BOARD_SIZE - 1
       /\ newPosition.col >= 0 /\ newPosition.col < BOARD_SIZE - 1
       /\ isValidCore(CoreAt(board, newPosition.row, newPosition.col).stones, player)
    THEN <<CoreAt(board, newPosition.row, newPosition.col)>>
    ELSE << >>

detectCoresWithNewStone(board, player, newPosition) ==
    LET possibleCores == <<
            [startRow |-> newPosition.row,     startCol |-> newPosition.col],
            [startRow |-> newPosition.row,     startCol |-> newPosition.col - 1],
            [startRow |-> newPosition.row - 1, startCol |-> newPosition.col],
            [startRow |-> newPosition.row - 1, startCol |-> newPosition.col - 1] >>
        found == [i \in 1..4 |->
                    LET startRow == possibleCores[i].startRow
                        startCol == possibleCores[i].startCol
                    IN  IF /\ startRow >= 0 /\ startRow < BOARD_SIZE - 1
                           /\ startCol >= 0 /\ startCol < BOARD_SIZE - 1
                           /\ isValidCore(CoreAt(board, startRow, startCol).stones, player)
                        THEN <<CoreAt(board, startRow, startCol)>>
                        ELSE << >>]
    IN  Flatten(found)

---------------------------------------------------------------------------
(* gameLogic.ts: resonance.                                                *)

Directions == <<"up", "down", "left", "right">>

directionVectors(direction) ==
    CASE direction = "up"    -> [row |-> -1, col |-> 0]
      [] direction = "down"  -> [row |-> 1,  col |-> 0]
      [] direction = "left"  -> [row |-> 0,  col |-> -1]
      [] direction = "right" -> [row |-> 0,  col |-> 1]

isPositionInArray(position, positions) ==
    \E i \in 1..Len(positions) : positions[i] = position

MaxResonanceSteps == 5

\* the loop with a blocking stone recorded on the path
RECURSIVE ResonanceLoopRecordsBlocker(_, _, _, _, _, _, _)
ResonanceLoopRecordsBlocker(board, current0, vector, core, corePlayer, i, path) ==
    IF i >= MaxResonanceSteps THEN path
    ELSE LET current == Pos(current0.row + vector.row, current0.col + vector.col)
         IN  IF ~isValidPosition(current) THEN path
             ELSE IF ~isPositionInArray(current, core.positions)
                  THEN IF StoneAt(board, current) # "empty"
                       THEN Append(path, current)
                       ELSE ResonanceLoopRecordsBlocker(board, current, vector, core,
                                                        corePlayer, i + 1, Append(path, current))
                  ELSE ResonanceLoopRecordsBlocker(board, current, vector, core,
                                                   corePlayer, i + 1, path)

\* the loop going one step farther than the limit
RECURSIVE ResonanceLoopOneMore(_, _, _, _, _, _, _)
ResonanceLoopOneMore(board, current0, vector, core, corePlayer, i, path) ==
    IF i >= MaxResonanceSteps + 1 THEN path
    ELSE LET current == Pos(current0.row + vector.row, current0.col + vector.col)
         IN  IF ~isValidPosition(current) THEN path
             ELSE IF ~isPositionInArray(current, core.positions)
                  THEN IF StoneAt(board, current) = Conduit(corePlayer)
                       THEN Append(path, current)
                       ELSE IF StoneAt(board, current) # "empty" THEN path
                       ELSE ResonanceLoopOneMore(board, current, vector, core, corePlayer,
                                                 i + 1, Append(path, current))
                  ELSE ResonanceLoopOneMore(board, current, vector, core, corePlayer,
                                            i + 1, path)

\* the body of the for loop of propagateResonance, from step i on
RECURSIVE ResonanceLoop(_, _, _, _, _, _, _)
ResonanceLoop(board, current0, vector, core, corePlayer, i, path) ==
    IF i >= MaxResonanceSteps THEN path
    ELSE LET current == Pos(current0.row + vector.row, current0.col + vector.col)
         IN  IF ~isValidPosition(current) THEN path
             ELSE IF ~isPositionInArray(current, core.positions)
                  THEN IF StoneAt(board, current) = Conduit(corePlayer)
                       THEN Append(path, current)
                       ELSE IF StoneAt(board, current) # "empty" THEN path
                       ELSE ResonanceLoop(board, current, vector, core, corePlayer,
                                          i + 1, Append(path, current))
                  ELSE ResonanceLoop(board, current, vector, core, corePlayer, i + 1, path)

\* the ray treats the cells of the core like any other cell
propagateWithoutCore(board, start, direction, core, corePlayer) ==
    ResonanceLoop(board, start, directionVectors(direction),
                  [positions |-> << >>, stones |-> << >>], corePlayer, 0, << >>)

propagateResonance(board, start, direction, core, corePlayer) ==
    ResonanceLoop(board, start, directionVectors(direction), core, corePlayer, 0, << >>)

\* every cell of the path becomes a keystone
ConvertWholePath(board, path, corePlayer) ==
    [q \in (DOMAIN board) \cup {path[i] : i \in 1..Len(path)} |->
        IF \E i \in 1..Len(path) : path[i] = q THEN Keystone(corePlayer) ELSE board[q]]

\* path.forEach: the owner's conductors on the path become keystones
RECURSIVE ConvertPath(_, _, _)
ConvertPath(board, path, corePlayer) ==
    IF path = << >> THEN board
    ELSE ConvertPath(IF StoneAt(board, Head(path)) = Conduit(corePlayer)
                     THEN SetStone(board, Head(path), Keystone(corePlayer))
                     ELSE board,
                     Tail(path), corePlayer)

RECURSIVE ResonanceDirections(_, _, _, _, _, _)
ResonanceDirections(newBoard, core, focusPosition, corePlayer, index, resonancePaths) ==
    IF index > Len(Directions) THEN [newBoard |-> newBoard, resonancePaths |-> resonancePaths]
    ELSE LET path == propagateResonance(newBoard, focusPosition, Directions[index], core, corePlayer)
         IN  ResonanceDirections(ConvertPath(newBoard, path, corePlayer), core, focusPosition,
                                 corePlayer, index + 1, Append(resonancePaths, path))

activateResonance(board, core, focusPosition) ==
    LET corePlayer == OwnerOf(core.stones[1])
    IN  ResonanceDirections(board, core, focusPosition, corePlayer, 1, << >>)

---------------------------------------------------------------------------
(* gameStore.ts: the store.  selectedLShape, hoveredPosition,              *)
(* isNotationMode and isAnimating are written by no rule and read by none. *)

NoCore == [positions |-> << >>, stones |-> << >>]

NoPosition == [row |-> -1, col |-> -1]

Event(eventType, player, position, convertedStones) ==
    [eventType |-> eventType, player |-> player, position |-> position,
     convertedStones |-> convertedStones]

LastN(s, n) == IF Len(s) <= n THEN s ELSE SubSeq(s, Len(s) - n + 1, Len(s))

\* id (Math.random) and timestamp (Date.now) of an event are not modelled
addEvent(S, event) ==
    [S EXCEPT !.eventLog = LastN(Append(@, event), LogWindow)]

updateAvailableMoves(S) ==
    [S EXCEPT !.availableMoves = getEmptyPositions(S.board)]

updateConvertibleStones(S) ==
    LET lShapes == detectLShapes(S.board, S.currentPlayer)
    IN  [S EXCEPT !.convertibleStones =
            {lShapes[i].stones[k] : i \in 1..Len(lShapes), k \in 1..3}]

InitialStore ==
    [board             |-> createEmptyBoard,
     currentPlayer     |-> "black",
     gamePhase         |-> "placing",
     gameStatus        |-> "playing",
     selectedCores     |-> << >>,
     selectedCore      |-> NoCore,
     corePlayer        |-> "null",
     moveHistory       |-> << >>,
     currentMoveIndex  |-> 0,
     eventLog          |-> << >>,
     isHistoryMode     |-> FALSE,
     historyIndex      |-> 0,
     availableMoves    |-> {},
     convertibleStones |-> {}]

\* App.tsx, useEffect on mount
MountedStore == updateConvertibleStones(updateAvailableMoves(InitialStore))

\* the clone of move.currentBoard carries the same stones; only notation is added
updateNotation(move) == move.currentBoard

GameMove(S, player, moveType, position, newBoard) ==
    [moveNumber    |-> S.currentMoveIndex + 1,
     player        |-> player,
     moveType      |-> moveType,
     position      |-> position,
     previousBoard |-> S.board,
     currentBoard  |-> newBoard]

\* the win goes to the other player
LoserStatus(player) == IF player = "black" THEN "whiteWin" ELSE "blackWin"

WinStatus(player) == IF player = "black" THEN "blackWin" ELSE "whiteWin"

completeTurn(S, move) ==
    LET currentPlayer == S.currentPlayer
        updatedBoard == updateNotation(move)
        hasWon == checkWinCondition(updatedBoard, currentPlayer)
        nextPlayer == Opponent(currentPlayer)
        S1 == [S EXCEPT !.board = updatedBoard,
                        !.currentPlayer = nextPlayer,
                        !.gamePhase = "placing",
                        !.selectedCores = << >>,
                        !.selectedCore = NoCore,
                        !.corePlayer = "null",
                        !.moveHistory = Append(@, move),
                        !.currentMoveIndex = @ + 1,
                        !.gameStatus = IF hasWon THEN WinStatus(currentPlayer) ELSE "playing"]
        S2 == updateConvertibleStones(updateAvailableMoves(S1))
    IN  IF ~hasWon
        THEN addEvent(S2, Event("turn_started", nextPlayer, NoPosition, << >>))
        ELSE S2

placeStone(S, position) ==
    IF S.gameStatus # "playing" \/ S.isHistoryMode THEN S
    ELSE LET currentPlayer == S.currentPlayer
             newBoard == SetStone(S.board, position, Conduit(currentPlayer))
             S1 == addEvent(S, Event("stone_placed", currentPlayer, position, << >>))
             move == GameMove(S1, currentPlayer, "place", position, newBoard)
             cores == detectCoresWithNewStone(newBoard, currentPlayer, position)
         IN  IF Len(cores) > 0
             THEN LET S2 == addEvent(S1, Event("core_formed", currentPlayer,
                                               cores[1].positions[1], << >>))
                  IN  [S2 EXCEPT !.board = updateNotation(move),
                                 !.gamePhase = "resonating",
                                 !.selectedCores = cores,
                                 !.selectedCore = NoCore,
                                 !.corePlayer = currentPlayer,
                                 !.moveHistory = Append(@, move),
                                 !.currentMoveIndex = @ + 1]
             ELSE completeTurn(S1, move)

\* stoneIndex is 0-based, as in the source
\* a conversion that does not read gameStatus
convertLShapeAfterWin(S, lShape, stoneIndex) ==
    IF S.isHistoryMode THEN S
    ELSE LET stonePosition == lShape.stones[stoneIndex + 1]
             newBoard == SetStone(S.board, stonePosition, Keystone(S.currentPlayer))
         IN  completeTurn(S, GameMove(S, S.currentPlayer, "convert", stonePosition, newBoard))

convertLShape(S, lShape, stoneIndex) ==
    IF S.gameStatus # "playing" \/ S.isHistoryMode THEN S
    ELSE LET stonePosition == lShape.stones[stoneIndex + 1]
             newBoard == SetStone(S.board, stonePosition, Keystone(S.currentPlayer))
         IN  completeTurn(S, GameMove(S, S.currentPlayer, "convert", stonePosition, newBoard))

\* the chosen core is stored but the phase is left as it is
selectCoreKeepsPhase(S, core) ==
    [S EXCEPT !.selectedCore = core]

selectCore(S, core) ==
    [S EXCEPT !.selectedCore = core, !.gamePhase = "selectingFocus"]

\* the stones of resonancePaths that are a keystone now and were a conductor before
convertedOnPaths(board, newBoard, resonancePaths) ==
    LET all == Flatten(resonancePaths)
    IN  SelectSeq(all, LAMBDA pos :
            /\ StoneAt(newBoard, pos) \in {"blackKeystone", "whiteKeystone"}
            /\ StoneAt(board, pos) \in {"blackConduit", "whiteConduit"})

selectFocusPosition(S, position) ==
    IF S.selectedCore = NoCore \/ S.corePlayer = "null" THEN S
    ELSE LET board == S.board
             corePlayer == S.corePlayer
             playerConduit == Conduit(corePlayer)
             focused == IF StoneAt(board, position) = playerConduit
                        THEN SetStone(board, position, Keystone(corePlayer))
                        ELSE board
             resonance == activateResonance(focused, S.selectedCore, position)
             newBoard == resonance.newBoard
             S1 == addEvent(S, Event("resonance_activated", corePlayer, position, << >>))
             convertedStones ==
                 (IF StoneAt(board, position) = playerConduit THEN <<position>> ELSE << >>)
                 \o convertedOnPaths(board, newBoard, resonance.resonancePaths)
             S2 == IF Len(convertedStones) > 0
                   THEN addEvent(S1, Event("stone_converted", corePlayer, NoPosition,
                                           convertedStones))
                   ELSE S1
         IN  completeTurn(S2, GameMove(S2, corePlayer, "resonance", position, newBoard))

\* the store's own activateResonance action, "for direct calls"
storeActivateResonance(S, core, focusPosition) ==
    LET resonance == activateResonance(S.board, core, focusPosition)
    IN  completeTurn(S, GameMove(S, S.currentPlayer, "resonance", focusPosition,
                                 resonance.newBoard))

\* moveHistory[i] of the source, i counted from 0
MoveAt(S, i) == S.moveHistory[i + 1]

\* the selection is cleared and the game is reopened, as confirmUndo does
ClearSelectionAndStatus(S) ==
    [S EXCEPT !.gamePhase = "placing", !.selectedCores = << >>,
              !.selectedCore = NoCore, !.corePlayer = "null", !.gameStatus = "playing"]

\* only the phase is set back, the selection stays
ClearPhaseOnly(S) == [S EXCEPT !.gamePhase = "placing"]

ClearSelection(S) ==
    [S EXCEPT !.gamePhase = "placing", !.selectedCores = << >>,
              !.selectedCore = NoCore, !.corePlayer = "null"]

\* undo without the test for an empty history
undoWithoutLengthTest(S) ==
    IF S.isHistoryMode /\ S.historyIndex > 0
    THEN LET targetMove == MoveAt(S, S.historyIndex - 1)
         IN  [ClearSelection(S) EXCEPT
                 !.historyIndex = S.historyIndex - 1,
                 !.board = targetMove.previousBoard,
                 !.currentPlayer = Opponent(targetMove.player)]
    ELSE IF S.isHistoryMode THEN S
    ELSE [ClearSelection(S) EXCEPT
             !.isHistoryMode = TRUE,
             !.historyIndex = Len(S.moveHistory) - 1,
             !.board = IF Len(S.moveHistory) > 0
                       THEN MoveAt(S, Len(S.moveHistory) - 1).previousBoard ELSE S.board]

undo(S) ==
    IF S.isHistoryMode
    THEN IF S.historyIndex > 0
         THEN LET targetMove == MoveAt(S, S.historyIndex - 1)
              IN  [ClearSelection(S) EXCEPT
                      !.historyIndex = S.historyIndex - 1,
                      !.board = targetMove.previousBoard,
                      !.currentPlayer = Opponent(targetMove.player)]
         ELSE S
    ELSE IF Len(S.moveHistory) > 0
         THEN LET targetMove == MoveAt(S, Len(S.moveHistory) - 1)
              IN  [ClearSelection(S) EXCEPT
                      !.isHistoryMode = TRUE,
                      !.historyIndex = Len(S.moveHistory) - 1,
                      !.board = targetMove.previousBoard,
                      !.currentPlayer = Opponent(targetMove.player)]
         ELSE S

\* redo without the isHistoryMode test
redoIgnoresMode(S) ==
    IF S.historyIndex < Len(S.moveHistory) - 1
    THEN LET targetMove == MoveAt(S, S.historyIndex + 1)
         IN  [ClearSelection(S) EXCEPT
                 !.historyIndex = S.historyIndex + 1,
                 !.board = targetMove.currentBoard,
                 !.currentPlayer = Opponent(targetMove.player)]
    ELSE S

redo(S) ==
    IF S.isHistoryMode /\ S.historyIndex < Len(S.moveHistory) - 1
    THEN LET targetMove == MoveAt(S, S.historyIndex + 1)
         IN  [ClearSelection(S) EXCEPT
                 !.historyIndex = S.historyIndex + 1,
                 !.board = targetMove.currentBoard,
                 !.currentPlayer = Opponent(targetMove.player)]
    ELSE S

confirmUndo(S) ==
    IF S.isHistoryMode
    THEN LET historyIndex == S.historyIndex
             targetMove == MoveAt(S, historyIndex)
             newHistory == SubSeq(S.moveHistory, 1, historyIndex + 1)
             nextPlayer == Opponent(targetMove.player)
             S1 == [ClearSelection(S) EXCEPT
                       !.moveHistory = newHistory,
                       !.currentMoveIndex = historyIndex,
                       !.currentPlayer = nextPlayer,
                       !.isHistoryMode = FALSE,
                       !.historyIndex = 0,
                       !.gameStatus = "playing"]
             S2 == updateConvertibleStones(updateAvailableMoves(S1))
         IN  addEvent(S2, Event("turn_started", nextPlayer, NoPosition, << >>))
    ELSE S

\* the synchronous part of resetGame; resetCallback is its setTimeout callback
resetGame(S) == InitialStore

\* the callback works on the state captured when resetGame ran
resetCallbackStale(S) ==
    addEvent(updateConvertibleStones(updateAvailableMoves(InitialStore)),
             Event("turn_started", "black", NoPosition, << >>))

resetCallback(S) ==
    addEvent(updateConvertibleStones(updateAvailableMoves(S)),
             Event("turn_started", "black", NoPosition, << >>))

---------------------------------------------------------------------------
(* gameStore.ts: the board objects behind the store.  The store and every  *)
(* recorded move hold references to board arrays; heap.objects[id] is what *)
(* the array with reference id holds now, heap.board is the reference in   *)
(* the store's board field and heap.moves[k] are the references in the     *)
(* previousBoard and currentBoard fields of moveHistory[k].                 *)

\* the board objects are not followed
NoHeap == [objects |-> << >>, board |-> 0, moves |-> << >>]

\* board: createEmptyBoard() of the initial state
InitialHeap == [objects |-> <<createEmptyBoard>>, board |-> 1, moves |-> << >>]

\* no copy is made: the reference passed in is handed back
shareBoard(H, id) == [heap |-> H, ref |-> id]

\* JSON.parse(JSON.stringify(board)): a new array with the same cells
cloneBoard(H, id) ==
    [heap |-> [H EXCEPT !.objects = Append(@, @[id])], ref |-> Len(H.objects) + 1]

\* the assignments to cells of the array id, after which it holds board
writeBoard(H, id, board) == [H EXCEPT !.objects[id] = board]

\* placeStone, convertLShape and the store's activateResonance: newBoard is a
\* clone of board and is written;
\* the move keeps board and newBoard; updateNotation clones newBoard, writes
\* the notation and its clone becomes the store's board
turnOnHeap(H, T) ==
    LET move == MoveAt(T, Len(T.moveHistory) - 1)
        newBoard == cloneBoard(H, H.board)
        H1 == writeBoard(newBoard.heap, newBoard.ref, move.currentBoard)
        updatedBoard == cloneBoard(H1, newBoard.ref)
        H2 == writeBoard(updatedBoard.heap, updatedBoard.ref, T.board)
    IN  [H2 EXCEPT !.board = updatedBoard.ref,
                   !.moves = Append(@, [previousBoard |-> H.board,
                                        currentBoard |-> newBoard.ref])]

\* selectFocusPosition: the focal cell is written on a clone of board,
\* activateResonance converts on a clone of that, the move keeps board and
\* the resonance board, updateNotation clones once more
resonanceOnHeap(H, S, T) ==
    LET move == MoveAt(T, Len(T.moveHistory) - 1)
        focused == IF StoneAt(S.board, move.position) = Conduit(S.corePlayer)
                   THEN SetStone(S.board, move.position, Keystone(S.corePlayer))
                   ELSE S.board
        newBoard == cloneBoard(H, H.board)
        H1 == writeBoard(newBoard.heap, newBoard.ref, focused)
        resonanceBoard == cloneBoard(H1, newBoard.ref)
        H2 == writeBoard(resonanceBoard.heap, resonanceBoard.ref, move.currentBoard)
        updatedBoard == cloneBoard(H2, resonanceBoard.ref)
        H3 == writeBoard(updatedBoard.heap, updatedBoard.ref, T.board)
    IN  [H3 EXCEPT !.board = updatedBoard.ref,
                   !.moves = Append(@, [previousBoard |-> H.board,
                                        currentBoard |-> resonanceBoard.ref])]

\* the conversions are written into the array that was passed in
activateResonanceInPlace(H, newBoard) == writeBoard(H, H.board, newBoard)

\* activateResonance of gameLogic.ts called with the array heap.board: newBoard
\* is a clone of it, the conversions are written into the clone and the clone,
\* the last object made, is returned
activateResonanceOnHeap(H, newBoard) ==
    LET copy == cloneBoard(H, H.board)
    IN  writeBoard(copy.heap, copy.ref, newBoard)

\* what the command name, which took the store from S to T, did to the objects
HeapStep(name, H, S, T) ==
    IF H = NoHeap \/ T = S THEN H
    ELSE CASE name \in {"placeStone", "convertLShape", "activateResonance"} -> turnOnHeap(H, T)
           [] name = "selectFocusPosition" -> resonanceOnHeap(H, S, T)
           [] name = "undo" -> [H EXCEPT !.board = H.moves[T.historyIndex + 1].previousBoard]
           [] name = "redo" -> [H EXCEPT !.board = H.moves[T.historyIndex + 1].currentBoard]
           [] name = "confirmUndo" -> [H EXCEPT !.moves = SubSeq(@, 1, Len(T.moveHistory))]
           [] OTHER -> H

---------------------------------------------------------------------------
(* Recorded openings: command sequences played on the mounted store.       *)

PlaceCmd(r, c) == [cmd |-> "placeStone", position |-> Pos(r, c), stones |-> << >>, index |-> 0]

ConvertCmd(stones, stoneIndex) ==
    [cmd |-> "convertLShape", position |-> NoPosition, stones |-> stones, index |-> stoneIndex]

SelectCoreCmd(r, c) == [cmd |-> "selectCore", position |-> Pos(r, c), stones |-> << >>, index |-> 0]

FocusCmd(r, c) ==
    [cmd |-> "selectFocusPosition", position |-> Pos(r, c), stones |-> << >>, index |-> 0]

Apply(S, c) ==
    CASE c.cmd = "placeStone" -> placeStone(S, c.position)
      [] c.cmd = "convertLShape" ->
            convertLShape(S, [stones |-> c.stones, type |-> getLShapeType(c.stones)], c.index)
      [] c.cmd = "selectCore" -> selectCore(S, CoreAt(S.board, c.position.row, c.position.col))
      [] c.cmd = "selectFocusPosition" -> selectFocusPosition(S, c.position)

RECURSIVE Replay(_, _)
Replay(S, commands) ==
    IF commands = << >> THEN S ELSE Replay(Apply(S, Head(commands)), Tail(commands))

\* black holds three cells of the 2x2 block at the origin and a conductor at
\* (1,3); white's stones stand in the way of the rays; black is to move
OpeningCore ==
    << PlaceCmd(0, 0), PlaceCmd(2, 0), PlaceCmd(0, 1), PlaceCmd(3, 1),
       PlaceCmd(1, 0), PlaceCmd(0, 3), PlaceCmd(1, 3), PlaceCmd(3, 0) >>

\* the same, after black's placeStone at (1,1) has completed the core
OpeningResonating == OpeningCore \o << PlaceCmd(1, 1) >>

\* black is one conversion from five keystones on row 0: keystones at
\* (0,0), (0,1), (0,3), (0,4) made by two resonances, conductors at (0,2),
\* (1,1), (1,2), (1,3); white's eight conductors stand apart on row 8
OpeningEndgame ==
    << PlaceCmd(0, 0), PlaceCmd(8, 0), PlaceCmd(0, 1), PlaceCmd(8, 2),
       PlaceCmd(0, 2), PlaceCmd(8, 4), PlaceCmd(0, 3), PlaceCmd(8, 6),
       PlaceCmd(1, 1), PlaceCmd(8, 8),
       PlaceCmd(1, 2), SelectCoreCmd(0, 1), FocusCmd(0, 1), PlaceCmd(8, 10),
       PlaceCmd(0, 4), PlaceCmd(8, 12),
       PlaceCmd(1, 3), SelectCoreCmd(0, 2), FocusCmd(0, 3), PlaceCmd(8, 14) >>

Openings == { << >>, OpeningCore, OpeningEndgame }

TwinOpenings == { << >>, OpeningCore, OpeningResonating }

---------------------------------------------------------------------------
(* The engine as a state machine: one action per command of the store.     *)

NoArg == [board |-> createEmptyBoard, player |-> "black"]

NoTwin == [store |-> InitialStore, timers |-> 0]

PlaceInputs == {Pos(r, c) : r \in 0..MaxRow, c \in 0..MaxCol}

\* a focus may also be picked one column outside the placement window
FocusInputs == {Pos(r, c) : r \in 0..MaxRow, c \in 0..(MaxCol + 1)}

SeqRange(s) == {s[i] : i \in 1..Len(s)}

\* the cores on offer, and the 2x2 block at the window's origin whatever it holds
CoreInputs(S) == SeqRange(S.selectedCores) \cup {CoreAt(S.board, 0, 0)}

LShapeInputs(S) == SeqRange(detectLShapes(S.board, S.currentPlayer))

\* a command that changes nothing leaves every variable as it is;
\* played counts the commands since the opening that rewrote moveHistory
Command(name, S) ==
    IF S = store THEN UNCHANGED vars
    ELSE /\ store' = S
         /\ lastCmd' = name
         /\ played' = IF name \in {"placeStone", "convertLShape", "selectFocusPosition",
                                   "activateResonance", "confirmUndo"}
                      THEN played + 1 ELSE played
         /\ heap' = HeapStep(name, heap, store, S)
         /\ UNCHANGED <<timers, arg, ret, twin>>

HasRoom == played < MaxMoves

PlaceStone ==
    \E position \in PlaceInputs :
        HasRoom /\ Command("placeStone", placeStone(store, position))

ConvertLShape ==
    \E lShape \in LShapeInputs(store), stoneIndex \in 0..2 :
        HasRoom /\ Command("convertLShape", convertLShape(store, lShape, stoneIndex))

SelectCore ==
    \E core \in CoreInputs(store) : HasRoom /\ Command("selectCore", selectCore(store, core))

SelectFocusPosition ==
    \E position \in FocusInputs :
        HasRoom /\ Command("selectFocusPosition", selectFocusPosition(store, position))

StoreActivateResonance ==
    \E core \in CoreInputs(store), focusPosition \in PlaceInputs :
        HasRoom /\ Command("activateResonance",
                           storeActivateResonance(store, core, focusPosition))

Undo == Command("undo", undo(store))

Redo == Command("redo", redo(store))

ConfirmUndo == HasRoom /\ Command("confirmUndo", confirmUndo(store))

Init ==
    /\ \E opening \in Openings : store = Replay(MountedStore, opening)
    /\ timers = 0
    /\ lastCmd = "none"
    /\ played = 0
    /\ arg = NoArg
    /\ ret = << >>
    /\ twin = NoTwin
    /\ heap = NoHeap

Next ==
    \/ PlaceStone
    \/ ConvertLShape
    \/ SelectCore
    \/ SelectFocusPosition
    \/ Undo
    \/ Redo
    \/ ConfirmUndo

Spec == Init /\ [][Next]_vars

\* the engine with every action of the store, the direct activateResonance
\* included, and its board objects followed from the initial state on
NextAll == Next \/ StoreActivateResonance

RECURSIVE HeapReplay(_, _, _)
HeapReplay(H, S, commands) ==
    IF commands = << >> THEN H
    ELSE HeapReplay(HeapStep(Head(commands).cmd, H, S, Apply(S, Head(commands))),
                    Apply(S, Head(commands)), Tail(commands))

HeapOpenings == { << >>, OpeningCore }

InitHeap ==
    /\ \E opening \in HeapOpenings :
          /\ store = Replay(MountedStore, opening)
          /\ heap = HeapReplay(InitialHeap, MountedStore, opening)
    /\ timers = 0
    /\ lastCmd = "none"
    /\ played = 0
    /\ arg = NoArg
    /\ ret = << >>
    /\ twin = NoTwin

SpecHeap == InitHeap /\ [][NextAll]_vars

---------------------------------------------------------------------------
(* checkWinCondition as a pure function: arg is a board and a player drawn *)
(* from bounded families, ret holds what the function returned for it.      *)

\* the cell k steps from origin in the direction (dr, dc)
LineCell(origin, dr, dc, k) == Pos(origin.row + k * dr, origin.col + k * dc)

\* WinSpan cells on one line: those in mask hold player's keystones, the
\* others hold filler (or nothing when filler is "empty")
LineBoard(origin, dr, dc, mask, filler, player) ==
    LET filled == IF filler = "empty" THEN mask ELSE 0..(WinSpan - 1)
    IN  [p \in {LineCell(origin, dr, dc, k) : k \in filled} |->
            IF \E k \in mask : p = LineCell(origin, dr, dc, k)
            THEN Keystone(player) ELSE filler]

\* keystones of player on any cells of a 2 x BlockCols block
BlockCells == {Pos(r, c) : r \in 0..1, c \in 0..(BlockCols - 1)}

BlockBoard(cells, player) == [p \in cells |-> Keystone(player)]

LineOrigins(dc) ==
    {Pos(k, k + (IF dc < 0 THEN WinSpan - 1 ELSE 0)) : k \in 0..WinOrigin}

WinBoards(player) ==
    {LineBoard(origin, 0, 1, mask, filler, player) :
        origin \in LineOrigins(1), mask \in SUBSET (0..(WinSpan - 1)),
        filler \in {"empty", Conduit(player), Keystone(Opponent(player))}}
    \cup
    {LineBoard(origin, 1, 0, mask, filler, player) :
        origin \in LineOrigins(1), mask \in SUBSET (0..(WinSpan - 1)),
        filler \in {"empty", Conduit(player), Keystone(Opponent(player))}}
    \cup
    {LineBoard(origin, 1, 1, mask, filler, player) :
        origin \in LineOrigins(1), mask \in SUBSET (0..(WinSpan - 1)),
        filler \in {"empty", Conduit(player), Keystone(Opponent(player))}}
    \cup
    {LineBoard(origin, 1, -1, mask, filler, player) :
        origin \in LineOrigins(-1), mask \in SUBSET (0..(WinSpan - 1)),
        filler \in {"empty", Conduit(player), Keystone(Opponent(player))}}
    \cup
    {BlockBoard(cells, player) : cells \in SUBSET BlockCells}

WinInputs(players) ==
    UNION {{[board |-> b, player |-> player] : b \in WinBoards(player)} : player \in players}

InitWin ==
    /\ store = MountedStore
    /\ timers = 0
    /\ lastCmd = "none"
    /\ played = 0
    /\ arg \in WinInputs(Player)
    /\ ret = << >>
    /\ twin = NoTwin
    /\ heap = NoHeap

CheckWinCondition ==
    /\ ret = << >>
    /\ ret' = <<checkWinCondition(arg.board, arg.player)>>
    /\ UNCHANGED <<store, timers, lastCmd, played, arg, twin, heap>>

NextWin == CheckWinCondition

SpecWin == InitWin /\ [][NextWin]_vars

---------------------------------------------------------------------------
(* The pattern and resonance functions of gameLogic.ts as pure functions:  *)
(* arg is a board and a player drawn from bounded families together with   *)
(* the inputs of the last call, lastCmd names the function that was called *)
(* and ret holds what it returned.                                          *)

Window(row, col, rows, cols) ==
    {Pos(row + r, col + c) : r \in 0..(rows - 1), c \in 0..(cols - 1)}

\* every board whose stones lie on cells and are of the given kinds
KindBoards(cells, kinds) ==
    {[p \in {q \in cells : f[q] # "empty"} |-> f[p]] : f \in [cells -> kinds \cup {"empty"}]}

\* three rows of conductors at the top-left corner, two rows of conductors
\* and keystones there, and any stones on the four bottom-right cells
LogicBoards(player) ==
    KindBoards(Window(0, 0, 3, PatternCols), {Conduit(player)})
    \cup KindBoards(Window(0, 0, 2, PatternCols), {Conduit(player), Keystone(player)})
    \cup KindBoards(Window(BOARD_SIZE - 2, BOARD_SIZE - 2, 2, 2), StoneType \ {"empty"})

LogicInputs(players) ==
    UNION {{[board |-> b, player |-> player, position |-> NoPosition, core |-> NoCore] :
                b \in LogicBoards(player)} : player \in players}

LogicPositions ==
    Window(0, 0, 3, PatternCols) \cup Window(BOARD_SIZE - 2, BOARD_SIZE - 2, 2, 2)

InitLogic ==
    /\ store = MountedStore
    /\ timers = 0
    /\ lastCmd = "none"
    /\ played = 0
    /\ arg \in LogicInputs(Player)
    /\ ret = << >>
    /\ twin = NoTwin
    /\ heap = NoHeap

Called(name, inputs, value) ==
    /\ ret = << >>
    /\ lastCmd' = name
    /\ arg' = inputs
    /\ ret' = <<value>>
    /\ UNCHANGED <<store, timers, played, twin, heap>>

DetectCores == Called("detectCores", arg, detectCores(arg.board, arg.player))

DetectCoresWithNewStone ==
    /\ ret = << >>
    /\ \E position \in LogicPositions :
        Called("detectCoresWithNewStone", [arg EXCEPT !.position = position],
               detectCoresWithNewStone(arg.board, arg.player, position))

DetectLShapes == Called("detectLShapes", arg, detectLShapes(arg.board, arg.player))

\* the store passes a core it detected and a cell of that core
ActivateResonance ==
    /\ ret = << >>
    /\ \E core \in SeqRange(detectCores(arg.board, arg.player)) :
        \E focusPosition \in SeqRange(core.positions) :
            LET resonance == activateResonance(arg.board, core, focusPosition)
            IN  /\ lastCmd' = "activateResonance"
                /\ arg' = [arg EXCEPT !.position = focusPosition, !.core = core]
                /\ ret' = <<resonance>>
                /\ heap' = IF heap = NoHeap THEN heap
                           ELSE activateResonanceOnHeap(heap, resonance.newBoard)
                /\ UNCHANGED <<store, timers, played, twin>>

NextLogic ==
    \/ DetectCores
    \/ DetectCoresWithNewStone
    \/ DetectLShapes
    \/ ActivateResonance

SpecLogic == InitLogic /\ [][NextLogic]_vars

---------------------------------------------------------------------------
(* activateResonance on boards built for its rays: a core one cell away    *)
(* from the top-left corner, a lane of cells to its right and the same     *)
(* lane below it, and the two cells between the core and the board's edge. *)

RayCore == Window(1, 1, 2, 2)

RowLane(k) == Pos(1, 2 + k)

ColLane(k) == Pos(2 + k, 1)

\* the lanes: at most LaneStones of the RayCols cells hold a stone
Lanes(kinds) ==
    UNION {[cells -> kinds] : cells \in {c \in SUBSET (1..RayCols) : Cardinality(c) <= LaneStones}}

RayBoard(coreKind, lane, nearKind) ==
    LET near == IF nearKind = "empty" THEN {} ELSE {Pos(1, 0), Pos(0, 1)}
        cells == RayCore \cup {RowLane(k) : k \in DOMAIN lane}
                         \cup {ColLane(k) : k \in DOMAIN lane} \cup near
    IN  [p \in cells |->
            IF p \in RayCore THEN coreKind
            ELSE IF p \in near THEN nearKind
            ELSE IF p.row = 1 THEN lane[p.col - 2] ELSE lane[p.row - 2]]

RayKinds(player) == {Conduit(player), Keystone(player), Conduit(Opponent(player))}

RayBoards(player) ==
    {RayBoard(coreKind, lane, nearKind) :
        coreKind \in {Conduit(player), Keystone(player)},
        lane \in Lanes(RayKinds(player)),
        nearKind \in RayKinds(player) \cup {"empty"}}

RayInputs(players) ==
    UNION {{[board |-> b, player |-> player, position |-> NoPosition, core |-> NoCore] :
                b \in RayBoards(player)} : player \in players}

InitRay ==
    /\ store = MountedStore
    /\ timers = 0
    /\ lastCmd = "none"
    /\ played = 0
    /\ arg \in RayInputs(Player)
    /\ ret = << >>
    /\ twin = NoTwin
    /\ heap = [objects |-> <<arg.board>>, board |-> 1, moves |-> << >>]

NextRay == ActivateResonance

SpecRay == InitRay /\ [][NextRay]_vars

---------------------------------------------------------------------------
(* Two runs of the engine side by side: both start from resetGame() and    *)
(* the same recorded opening, both receive the same commands, and each     *)
(* run's setTimeout callback of resetGame fires whenever its event loop    *)
(* gets to it.                                                              *)

AfterReset(opening) == Replay(resetGame(MountedStore), opening)

InitTwin ==
    /\ \E opening \in TwinOpenings :
          /\ store = AfterReset(opening)
          /\ twin = [store |-> AfterReset(opening), timers |-> 1]
    /\ timers = 1
    /\ lastCmd = "none"
    /\ played = 0
    /\ arg = NoArg
    /\ ret = << >>
    /\ heap = NoHeap

\* the same command, with the same input, issued in both runs
Both(name, S, T) ==
    /\ played < TwinMoves
    /\ store' = S
    /\ twin' = [twin EXCEPT !.store = T]
    /\ lastCmd' = name
    /\ played' = played + 1
    /\ UNCHANGED <<timers, arg, ret, heap>>

BothPlaceStone ==
    \E position \in PlaceInputs :
        Both("placeStone", placeStone(store, position), placeStone(twin.store, position))

BothConvertLShape ==
    \E lShape \in LShapeInputs(store), stoneIndex \in 0..2 :
        Both("convertLShape", convertLShape(store, lShape, stoneIndex),
             convertLShape(twin.store, lShape, stoneIndex))

BothSelectCore ==
    \E core \in CoreInputs(store) :
        Both("selectCore", selectCore(store, core), selectCore(twin.store, core))

BothSelectFocusPosition ==
    \E position \in FocusInputs :
        Both("selectFocusPosition", selectFocusPosition(store, position),
             selectFocusPosition(twin.store, position))

ResetTimer ==
    /\ timers > 0
    /\ store' = resetCallback(store)
    /\ timers' = timers - 1
    /\ UNCHANGED <<twin, lastCmd, played, arg, ret, heap>>

TwinResetTimer ==
    /\ twin.timers > 0
    /\ twin' = [store |-> resetCallback(twin.store), timers |-> twin.timers - 1]
    /\ UNCHANGED <<store, timers, lastCmd, played, arg, ret, heap>>

NextTwin ==
    \/ BothPlaceStone
    \/ BothConvertLShape
    \/ BothSelectCore
    \/ BothSelectFocusPosition
    \/ ResetTimer
    \/ TwinResetTimer

SpecTwin == InitTwin /\ [][NextTwin]_vars

---------------------------------------------------------------------------
(* One run of the engine with resetGame(): the reset itself is done at     *)
(* once, its setTimeout callback fires when the event loop gets to it, and *)
(* other commands may be issued in between.                                 *)

ResetGame ==
    /\ timers < MaxTimers
    /\ store' = resetGame(store)
    /\ timers' = timers + 1
    /\ lastCmd' = "resetGame"
    /\ UNCHANGED <<played, arg, ret, twin, heap>>

NextReset ==
    \/ Next
    \/ ResetGame
    \/ ResetTimer

SpecReset == Init /\ [][NextReset]_vars

---------------------------------------------------------------------------
(* Properties of the win check, stated over SpecWin.                       *)

WinDirections == {<<0, 1>>, <<1, 0>>, <<1, 1>>, <<1, -1>>}

HoldsKeystone(board, player, p) == StoneAt(board, p) = Keystone(player)

\* n keystones of player in a row starting at p in direction d
RunFrom(board, player, p, d, n) ==
    \A k \in 0..(n - 1) : HoldsKeystone(board, player, LineCell(p, d[1], d[2], k))

FiveInLine(board, player) ==
    \E p \in DOMAIN board, d \in WinDirections : RunFrom(board, player, p, d, 5)

\* a run of five with no keystone of player directly before or after it
ExactFiveRun(board, player) ==
    \E p \in DOMAIN board, d \in WinDirections :
        /\ RunFrom(board, player, p, d, 5)
        /\ ~HoldsKeystone(board, player, LineCell(p, d[1], d[2], -1))
        /\ ~HoldsKeystone(board, player, LineCell(p, d[1], d[2], 5))

KeystoneCount(board, player) ==
    Cardinality({p \in DOMAIN board : HoldsKeystone(board, player, p)})

ReferenceWin(board, player) ==
    KeystoneCount(board, player) >= 5 /\ FiveInLine(board, player)

\* C1: checkWinCondition(board, player) is true only if player has a run of
\* exactly five consecutive keystones in a row, column, diagonal or
\* anti-diagonal; a run of six or more with no separate run of five is no win.
C1_OnlyExactFiveWins ==
    ret = <<TRUE>> => ExactFiveRun(arg.board, arg.player)

---------------------------------------------------------------------------
(* Properties of undo, redo and confirmUndo, stated over Spec.             *)

LastMove(S) == S.moveHistory[Len(S.moveHistory)]

\* C3: after N forward moves, outside history mode, undo() makes the board
\* the before-snapshot of move N, and a redo() issued right after it makes
\* the board the after-snapshot of move N.
C3_UndoThenRedo ==
    (~store.isHistoryMode /\ Len(store.moveHistory) > 0)
        => /\ undo(store).board = LastMove(store).previousBoard
           /\ redo(undo(store)).board = LastMove(store).currentBoard

\* C4: in history mode with the cursor at K, confirmUndo() keeps exactly the
\* first K+1 moves and leaves history mode, and no redo() afterwards changes
\* anything: redo() never touches the recorded moves.
C4_ConfirmUndoTruncates ==
    /\ store.isHistoryMode =>
          LET S == confirmUndo(store)
          IN  /\ S.moveHistory = SubSeq(store.moveHistory, 1, store.historyIndex + 1)
              /\ ~S.isHistoryMode
              /\ redo(S) = S
    /\ ~store.isHistoryMode => redo(store) = store
    /\ redo(store).moveHistory = store.moveHistory

\* confirmUndo() has just discarded moves of the recorded opening
C4_MovesDiscarded ==
    /\ lastCmd = "confirmUndo"
    /\ played = 1
    /\ Len(store.moveHistory) \in 1..(Len(OpeningCore) - 1)
    /\ ~store.isHistoryMode

\* C5: whenever the engine is not in history mode, the board is the
\* after-snapshot of the last move kept in history, or the empty board when
\* history is empty.
C5_BoardIsLastSnapshot ==
    ~store.isHistoryMode =>
        store.board = IF store.moveHistory = << >> THEN createEmptyBoard
                      ELSE LastMove(store).currentBoard

---------------------------------------------------------------------------
(* Properties of the turn flow, stated over Spec.                          *)

OtherPlayer(player) == IF player = "black" THEN "white" ELSE "black"

ConduitOf(player) == IF player = "black" THEN "blackConduit" ELSE "whiteConduit"

KeystoneOf(player) == IF player = "black" THEN "blackKeystone" ELSE "whiteKeystone"

\* board with stone at p and every other cell as it is
BoardWith(board, p, stone) ==
    [q \in (DOMAIN board) \cup {p} |-> IF q = p THEN stone ELSE board[q]]

Placeable(S) == S.gamePhase = "placing" /\ S.gameStatus = "playing" /\ ~S.isHistoryMode

\* C7: in phase placing (status playing, not history mode) placeStone(p) on
\* an empty cell puts the active player's conductor at p; if
\* detectCoresWithNewStone finds cores through p the phase becomes resonating
\* with exactly those cores on offer, corePlayer the acting player and the
\* active player unchanged; otherwise the turn is finalized, the phase stays
\* placing and the active player is swapped.
C7_PlaceStone ==
    Placeable(store) =>
        \A p \in PlaceInputs :
            StoneAt(store.board, p) = "empty" =>
                LET player == store.currentPlayer
                    newBoard == BoardWith(store.board, p, ConduitOf(player))
                    cores == detectCoresWithNewStone(newBoard, player, p)
                    S == placeStone(store, p)
                IN  /\ S.board = newBoard
                    /\ Len(S.moveHistory) = Len(store.moveHistory) + 1
                    /\ LastMove(S).previousBoard = store.board
                    /\ LastMove(S).currentBoard = newBoard
                    /\ IF cores # << >>
                       THEN /\ S.gamePhase = "resonating"
                            /\ S.selectedCores = cores
                            /\ S.corePlayer = player
                            /\ S.currentPlayer = player
                       ELSE /\ S.gamePhase = "placing"
                            /\ S.currentPlayer = OtherPlayer(player)
                            /\ S.selectedCores = << >>
                            /\ S.corePlayer = "null"

\* a placement on an empty cell has just opened the resonating phase
C7_PlacedIntoCore ==
    /\ lastCmd = "placeStone"
    /\ store.gamePhase = "resonating"
    /\ Len(store.selectedCores) > 0
    /\ store.corePlayer = store.currentPlayer
    /\ StoneAt(LastMove(store).previousBoard, LastMove(store).position) = "empty"

CorePositions(core) == {core.positions[i] : i \in 1..Len(core.positions)}

\* the cells whose stone differs between two boards
Changed(before, after) ==
    {p \in (DOMAIN before) \cup (DOMAIN after) : StoneAt(before, p) # StoneAt(after, p)}

\* C8: from resonating, selectCore(c) with c one of the offered cores moves
\* to selectingFocus with selectedCore = c and leaves board, active player
\* and history alone; from there selectFocusPosition(p) with p in the chosen
\* core applies the resonance for corePlayer, finalizes the turn and returns
\* to placing with the opponent of corePlayer to move.
C8_SelectCoreThenFocus ==
    store.gamePhase = "resonating" =>
        \A c \in SeqRange(store.selectedCores) :
            LET S == selectCore(store, c)
            IN  /\ S.gamePhase = "selectingFocus"
                /\ S.selectedCore = c
                /\ S.board = store.board
                /\ S.currentPlayer = store.currentPlayer
                /\ S.moveHistory = store.moveHistory
                /\ \A p \in CorePositions(c) :
                      LET T == selectFocusPosition(S, p)
                          owner == store.corePlayer
                      IN  /\ T.gamePhase = "placing"
                          /\ T.currentPlayer = OtherPlayer(owner)
                          /\ T.selectedCores = << >>
                          /\ T.selectedCore = NoCore
                          /\ T.corePlayer = "null"
                          /\ StoneAt(T.board, p) = KeystoneOf(owner)
                          /\ T.board = activateResonance(
                                 BoardWith(store.board, p, KeystoneOf(owner)), c, p).newBoard
                          /\ \A q \in Changed(store.board, T.board) :
                                /\ StoneAt(store.board, q) = ConduitOf(owner)
                                /\ StoneAt(T.board, q) = KeystoneOf(owner)
                          /\ Len(T.moveHistory) = Len(store.moveHistory) + 1
                          /\ LastMove(T).moveType = "resonance"
                          /\ LastMove(T).player = owner
                          /\ LastMove(T).previousBoard = store.board
                          /\ LastMove(T).currentBoard = T.board

\* a resonance chosen from an offered core has just converted a conductor
\* outside the core as well as the focus
C8_ResonanceApplied ==
    /\ lastCmd = "selectFocusPosition"
    /\ store.gamePhase = "placing"
    /\ LastMove(store).moveType = "resonance"
    /\ store.currentPlayer = OtherPlayer(LastMove(store).player)
    /\ Cardinality(Changed(LastMove(store).previousBoard, store.board)) >= 2

\* C9: placeStone(p) issued while the phase is resonating or selectingFocus
\* changes nothing: board, active player, phase, offered and selected cores,
\* corePlayer and history stay as they are.  (Stated for the states in which
\* cores are on offer, as they are whenever a placement opened the phase.)
C9_PlaceStoneOutOfPhase ==
    (store.gamePhase \in {"resonating", "selectingFocus"} /\ store.selectedCores # << >>) =>
        \A p \in PlaceInputs :
            LET S == placeStone(store, p)
            IN  /\ S.board = store.board
                /\ S.currentPlayer = store.currentPlayer
                /\ S.gamePhase = store.gamePhase
                /\ S.selectedCores = store.selectedCores
                /\ S.selectedCore = store.selectedCore
                /\ S.corePlayer = store.corePlayer
                /\ S.moveHistory = store.moveHistory

\* C10: selectCore(c) issued when the phase is not resonating or c is not
\* among the offered cores, and selectFocusPosition(p) issued when the phase
\* is not selectingFocus or p is not one of the chosen core's four positions,
\* change no part of the engine state.
C10_InvalidSelectionsIgnored ==
    /\ \A c \in CoreInputs(store) :
          (store.gamePhase # "resonating" \/ c \notin SeqRange(store.selectedCores))
              => selectCore(store, c) = store
    /\ \A p \in FocusInputs :
          (\/ store.gamePhase # "selectingFocus"
           \/ store.selectedCore = NoCore
           \/ p \notin CorePositions(store.selectedCore))
              => selectFocusPosition(store, p) = store

---------------------------------------------------------------------------
(* Determinism, stated over SpecTwin.                                      *)

Observed(S) ==
    [board |-> S.board, currentPlayer |-> S.currentPlayer, gamePhase |-> S.gamePhase,
     moveHistory |-> S.moveHistory, gameStatus |-> S.gameStatus]

\* C6: two runs that start from reset() and receive the same sequence of
\* placeStone, convertLShape, selectCore and selectFocusPosition commands
\* reach the same board, active player, phase, recorded history snapshots
\* and game status.
C6_SameCommandsSameState == Observed(store) = Observed(twin.store)

\* after the last command one run's reset callback has fired and the
\* other's has not, and the two logs differ
C6_RunsDifferInTiming ==
    /\ played = TwinMoves
    /\ timers # twin.timers
    /\ store.eventLog # twin.store.eventLog
    /\ Len(store.moveHistory) > Len(OpeningResonating)

---------------------------------------------------------------------------
(* Properties of finalization and of the history cursor, stated over Spec. *)

WinOf(player) == IF player = "black" THEN "blackWin" ELSE "whiteWin"

\* the stores a finalized turn of actor can leave behind in one command:
\* a placement that completed no core, a conversion, a focus selection
FinalizedBy(S) ==
    {T \in {placeStone(S, p) : p \in PlaceInputs} : T # S /\ T.gamePhase # "resonating"}
    \cup ({convertLShape(S, l, k) : l \in LShapeInputs(S), k \in 0..2} \ {S})

FocusedBy(S) == {selectFocusPosition(S, p) : p \in FocusInputs} \ {S}

\* C11: whenever a turn is finalized (placement without a core, bent-triple
\* conversion or focus selection) the status becomes the acting player's win
\* exactly when checkWinCondition holds for the acting player on the
\* resulting board and is 'playing' otherwise; the non-acting player is
\* never declared the winner.
C11_StatusAfterFinalization ==
    /\ \A T \in FinalizedBy(store) :
          T.gameStatus = IF checkWinCondition(T.board, store.currentPlayer)
                         THEN WinOf(store.currentPlayer) ELSE "playing"
    /\ \A T \in FocusedBy(store) :
          T.gameStatus = IF checkWinCondition(T.board, store.corePlayer)
                         THEN WinOf(store.corePlayer) ELSE "playing"

\* a focus selection has just won the game for the player who made it
C11_WonByFocus ==
    /\ lastCmd = "selectFocusPosition"
    /\ store.gameStatus = WinOf(LastMove(store).player)
    /\ LastMove(store).moveType = "resonance"

\* C12: when finalization detects a win the active player is not swapped:
\* after the winning move currentPlayer is still the winner.
C12_WinnerStaysActive ==
    /\ \A T \in FinalizedBy(store) :
          T.gameStatus # "playing" => T.currentPlayer = store.currentPlayer
    /\ \A T \in FocusedBy(store) :
          T.gameStatus # "playing" => T.currentPlayer = store.corePlayer

\* C13: undo() with an empty history, redo() outside history mode and redo()
\* with the cursor at the last recorded move change no state variable.
C13_HistoryBoundsAreNoOps ==
    /\ store.moveHistory = << >> => undo(store) = store
    /\ ~store.isHistoryMode => redo(store) = store
    /\ (store.isHistoryMode /\ store.historyIndex = Len(store.moveHistory) - 1)
          => redo(store) = store

\* undo() has just put the cursor on the last recorded move
C13_CursorAtLastMove ==
    /\ lastCmd = "undo"
    /\ store.isHistoryMode
    /\ store.historyIndex = Len(store.moveHistory) - 1

\* what undo() and redo() must leave alone
HistoryFrame(S) ==
    [moveHistory |-> S.moveHistory, currentMoveIndex |-> S.currentMoveIndex,
     gameStatus |-> S.gameStatus, eventLog |-> S.eventLog,
     availableMoves |-> S.availableMoves, convertibleStones |-> S.convertibleStones]

\* C14: undo() and redo() never change moveHistory; they change only the
\* cursor, the displayed board, the active player, the phase and the
\* transient selection state.
C14_UndoRedoKeepHistory ==
    /\ HistoryFrame(undo(store)) = HistoryFrame(store)
    /\ HistoryFrame(redo(store)) = HistoryFrame(store)

\* redo() has just moved the cursor forward over a won game's history
C14_RedoMovedCursor ==
    /\ lastCmd = "redo"
    /\ store.isHistoryMode
    /\ store.historyIndex > 0
    /\ store.gameStatus # "playing"

\* C15: the first undo() after forward play enters history mode with the
\* cursor on the last move, shows that move's before-snapshot and makes the
\* player who made the undone move the player to act.
C15_FirstUndo ==
    (~store.isHistoryMode /\ Len(store.moveHistory) > 0) =>
        LET U == undo(store)
        IN  /\ U.isHistoryMode
            /\ U.historyIndex = Len(store.moveHistory) - 1
            /\ U.board = LastMove(store).previousBoard
            /\ U.currentPlayer = LastMove(store).player

---------------------------------------------------------------------------
(* Properties of the pattern and resonance functions, stated over          *)
(* SpecLogic.                                                               *)

Returned == ret[1]

Cells(seq) == {seq[i] : i \in 1..Len(seq)}

OwnStones(player) == {ConduitOf(player), KeystoneOf(player)}

CellOf(board, p) == IF p \in DOMAIN board THEN board[p] ELSE "empty"

\* the 2x2 block with top-left cell a
Block(a) == {[row |-> a.row + dr, col |-> a.col + dc] : dr \in 0..1, dc \in 0..1}

\* the top-left cells of the blocks of the board that are all player's stones
CoreAnchors(board, player) ==
    {a \in [row : 0..(BOARD_SIZE - 2), col : 0..(BOARD_SIZE - 2)] :
        \A p \in Block(a) : CellOf(board, p) \in OwnStones(player)}

\* C16: for every board, owner and position, detectCoresWithNewStone returns
\* exactly the cores of detectCores that contain the position, each once;
\* candidate anchors outside the 16x16 anchor grid are skipped.
C16_CoresWithNewStone ==
    lastCmd = "detectCoresWithNewStone" =>
        /\ Cells(Returned) =
              {core \in Cells(detectCores(arg.board, arg.player)) :
                  arg.position \in Cells(core.positions)}
        /\ Cardinality(Cells(Returned)) = Len(Returned)

\* the new stone is shared by two cores
C16_TwoCoresShareTheStone ==
    /\ lastCmd = "detectCoresWithNewStone"
    /\ Len(Returned) >= 2

\* the new stone lies on the last row and column and is part of a core
C16_CoreAtTheEdge ==
    /\ lastCmd = "detectCoresWithNewStone"
    /\ arg.position = [row |-> BOARD_SIZE - 1, col |-> BOARD_SIZE - 1]
    /\ Len(Returned) = 1

\* C17: detectCores returns a core at anchor (r, c) exactly when all four
\* cells of the block hold a stone of the owner, conductor or keystone; a
\* block with an empty cell or an opponent stone is never a core.
C17_DetectCores ==
    lastCmd = "detectCores" =>
        /\ {core.positions[1] : core \in Cells(Returned)} = CoreAnchors(arg.board, arg.player)
        /\ Cardinality(CoreAnchors(arg.board, arg.player)) = Len(Returned)
        /\ \A core \in Cells(Returned) :
              /\ Cells(core.positions) = Block(core.positions[1])
              /\ \A i \in 1..4 : core.stones[i] = CellOf(arg.board, core.positions[i])

\* a core of conductors and keystones was returned next to a block that is
\* not one
C17_MixedCoreReturned ==
    /\ lastCmd = "detectCores"
    /\ Len(Returned) = 1
    /\ \E i, j \in 1..4 : /\ Returned[1].stones[i] = ConduitOf(arg.player)
                          /\ Returned[1].stones[j] = KeystoneOf(arg.player)
    /\ Cardinality(DOMAIN arg.board) > 4

\* a block holding an opponent stone was passed over
C17_OpponentBlockRejected ==
    /\ lastCmd = "detectCores"
    /\ Returned = << >>
    /\ Cardinality(DOMAIN arg.board) = 4
    /\ \E p \in DOMAIN arg.board : arg.board[p] = ConduitOf(OtherPlayer(arg.player))

Touching(p, q) ==
    (IF p.row < q.row THEN q.row - p.row ELSE p.row - q.row)
    + (IF p.col < q.col THEN q.col - p.col ELSE p.col - q.col) = 1

TouchingPairs(t) == Cardinality({pair \in SUBSET t : Cardinality(pair) = 2 /\
                                    \A p, q \in pair : p = q \/ Touching(p, q)})

\* the sets of three conductors of player with exactly two touching pairs
BentTriples(board, player) ==
    LET conductors == {p \in DOMAIN board : board[p] = ConduitOf(player)}
    IN  {t \in {{a, b, c} : a, b, c \in conductors} :
            Cardinality(t) = 3 /\ TouchingPairs(t) = 2}

C19_TriplesAreBent ==
    lastCmd = "detectLShapes" =>
        \A shape \in Cells(Returned) :
            /\ Cardinality({p.row : p \in Cells(shape.stones)}) > 1
            /\ Cardinality({p.col : p \in Cells(shape.stones)}) > 1

\* C20: activateResonance(board, core, focal) converts the focal cell: a
\* conductor there is a keystone of the core's owner in the returned board,
\* a keystone there stays one.
C20_FocalCellConverted ==
    lastCmd = "activateResonance" =>
        CellOf(Returned.newBoard, arg.position) = KeystoneOf(arg.player)

---------------------------------------------------------------------------
(* Properties of the rays of one activation, stated over SpecRay.          *)

\* up, down, left, right: the order of the paths activateResonance returns
RayVector(d) ==
    <<[row |-> -1, col |-> 0], [row |-> 1, col |-> 0],
      [row |-> 0, col |-> -1], [row |-> 0, col |-> 1]>>[d]

\* the cell k steps from the focal cell in direction d
RayCell(d, k) ==
    [row |-> arg.position.row + k * RayVector(d).row,
     col |-> arg.position.col + k * RayVector(d).col]

OnBoard(p) == p.row \in 0..(BOARD_SIZE - 1) /\ p.col \in 0..(BOARD_SIZE - 1)

InCore(p) == p \in Cells(arg.core.positions)

\* the steps of ray d that fall on the board
RaySteps(d) == {k \in 1..MaxResonanceSteps : OnBoard(RayCell(d, k))}

\* the steps of ray d at which it meets a stone outside the core
StoneSteps(d) ==
    {k \in RaySteps(d) : ~InCore(RayCell(d, k)) /\ CellOf(arg.board, RayCell(d, k)) # "empty"}

HasStone(d) == StoneSteps(d) # {}

FirstStoneStep(d) == CHOOSE k \in StoneSteps(d) : \A j \in StoneSteps(d) : k <= j

FirstStone(d) == RayCell(d, FirstStoneStep(d))

\* the cells whose stone differs between the board passed in and the board returned
ChangedCells ==
    {p \in (DOMAIN arg.board) \cup (DOMAIN Returned.newBoard) :
        CellOf(arg.board, p) # CellOf(Returned.newBoard, p)}

\* the changed cells that lie in direction d of the focal cell
ChangedOnRay(d) == {p \in ChangedCells : \E k \in 1..BOARD_SIZE : p = RayCell(d, k)}

PathOf(d) == Returned.resonancePaths[d]

\* C21: in one activation each of the four directions converts at most one
\* stone, the first conductor of the core's owner outside the core that the
\* ray reaches before any blocking stone; that position is the last element
\* of the direction's path; at most five cells change in one activation.
C21_OneConversionPerDirection ==
    lastCmd = "activateResonance" =>
        /\ \A d \in 1..4 :
              /\ Cardinality(ChangedOnRay(d)) <= 1
              /\ \A p \in ChangedOnRay(d) :
                    /\ HasStone(d) /\ p = FirstStone(d)
                    /\ CellOf(arg.board, p) = ConduitOf(arg.player)
                    /\ CellOf(Returned.newBoard, p) = KeystoneOf(arg.player)
                    /\ PathOf(d) # << >> /\ PathOf(d)[Len(PathOf(d))] = p
              /\ (HasStone(d) /\ CellOf(arg.board, FirstStone(d)) = ConduitOf(arg.player))
                    => FirstStone(d) \in ChangedOnRay(d)
        /\ ChangedCells \subseteq {arg.position} \cup UNION {ChangedOnRay(d) : d \in 1..4}
        /\ Cardinality(ChangedCells) <= 5

\* two rays of one activation each converted a conductor, one of them with a
\* second conductor standing behind the converted one
C21_TwoRaysConverted ==
    /\ lastCmd = "activateResonance"
    /\ Cardinality(ChangedCells) >= 2
    /\ \E d \in 1..4 : ChangedOnRay(d) # {} /\ Cardinality(StoneSteps(d)) >= 2

\* C22: a ray stops, without recording the cell, at the first cell outside
\* the core that holds an opponent stone or the owner's own keystone, and
\* nothing at or behind that cell is recorded or converted; a direction whose
\* cell next to the focal cell is an opponent stone has an empty path.
C22_RayStopsAtBlocker ==
    lastCmd = "activateResonance" =>
        \A d \in 1..4 :
            (HasStone(d) /\ CellOf(arg.board, FirstStone(d)) # ConduitOf(arg.player)) =>
                /\ Cells(PathOf(d)) =
                      {RayCell(d, k) : k \in {j \in RaySteps(d) :
                                                 j < FirstStoneStep(d) /\ ~InCore(RayCell(d, j))}}
                /\ ChangedOnRay(d) = {}
                /\ FirstStoneStep(d) = 1 => PathOf(d) = << >>

\* a ray crossed empty cells, met the owner's keystone and left the owner's
\* conductor behind it as it was, while another ray was blocked at its first
\* step by an opponent stone
C22_BlockedBehindEmptyCells ==
    /\ lastCmd = "activateResonance"
    /\ \E d \in 1..4 :
          /\ HasStone(d) /\ FirstStoneStep(d) >= 3
          /\ CellOf(arg.board, FirstStone(d)) = KeystoneOf(arg.player)
          /\ \E k \in StoneSteps(d) : /\ k > FirstStoneStep(d)
                                      /\ CellOf(arg.board, RayCell(d, k)) = ConduitOf(arg.player)
          /\ PathOf(d) # << >>
    /\ \E d \in 1..4 :
          /\ HasStone(d) /\ FirstStoneStep(d) = 1
          /\ CellOf(arg.board, FirstStone(d)) = ConduitOf(OtherPlayer(arg.player))

\* C23: core cells are transparent to resonance: no position of the core
\* appears in any of the four paths, no core cell other than the focal cell
\* is converted, and a core cell lying on a ray does not stop that ray.
C23_CoreIsTransparent ==
    lastCmd = "activateResonance" =>
        /\ \A d \in 1..4 : \A p \in Cells(PathOf(d)) : ~InCore(p)
        /\ \A p \in ChangedCells : InCore(p) => p = arg.position
        /\ \A d \in 1..4 :
              (/\ InCore(RayCell(d, 1))
               /\ OnBoard(RayCell(d, 2))
               /\ CellOf(arg.board, RayCell(d, 2)) \in {"empty", ConduitOf(arg.player)})
                  => RayCell(d, 2) \in Cells(PathOf(d))

\* a ray passed over a conductor of the core and converted the conductor
\* right behind it
C23_ConvertedBehindTheCore ==
    /\ lastCmd = "activateResonance"
    /\ \E d \in 1..4 :
          /\ InCore(RayCell(d, 1))
          /\ CellOf(arg.board, RayCell(d, 1)) = ConduitOf(arg.player)
          /\ RayCell(d, 2) \in ChangedCells

\* C33: every position of a path is on the board and on the ray from the
\* focal cell at a distance of 1 to 5 (the cells of the core count toward
\* the 5), the positions are in order of increasing distance, every position
\* but possibly the last was empty in the board passed in, and no cell
\* farther than 5 steps from the focal cell is recorded or converted.
C33_PathsLieOnTheRays ==
    lastCmd = "activateResonance" =>
        /\ \A d \in 1..4 : \A i \in 1..Len(PathOf(d)) :
              /\ OnBoard(PathOf(d)[i])
              /\ \E k \in 1..5 :
                    /\ PathOf(d)[i] = RayCell(d, k)
                    /\ i > 1 => \E j \in 1..(k - 1) : PathOf(d)[i - 1] = RayCell(d, j)
              /\ i < Len(PathOf(d)) => CellOf(arg.board, PathOf(d)[i]) = "empty"
        /\ ChangedCells \subseteq
              {arg.position} \cup {RayCell(d, k) : d \in 1..4, k \in 1..5}

\* a ray crossed a cell of the core and four empty cells, and left the
\* owner's conductor at its sixth step as it was
C33_ConductorOutOfReach ==
    /\ lastCmd = "activateResonance"
    /\ \E d \in 1..4 :
          /\ InCore(RayCell(d, 1))
          /\ PathOf(d) = <<RayCell(d, 2), RayCell(d, 3), RayCell(d, 4), RayCell(d, 5)>>
          /\ CellOf(arg.board, RayCell(d, 6)) = ConduitOf(arg.player)
          /\ CellOf(Returned.newBoard, RayCell(d, 6)) = ConduitOf(arg.player)

\* C34: activateResonance does not modify the board it is given; the board
\* it returns differs from it only in cells changed from a conductor of the
\* core's owner to a keystone of that owner, so empty cells, opponent stones
\* and keystones are the same in both; it returns four paths, in the order
\* up, down, left, right.
C34_OnlyOwnConductorsChange ==
    lastCmd = "activateResonance" =>
        /\ heap.objects[heap.board] = arg.board
        /\ heap.objects[Len(heap.objects)] = Returned.newBoard
        /\ \A p \in ChangedCells :
              /\ CellOf(arg.board, p) = ConduitOf(arg.player)
              /\ CellOf(Returned.newBoard, p) = KeystoneOf(arg.player)
        /\ Len(Returned.resonancePaths) = 4
        /\ \A d \in 1..4 : \A p \in Cells(PathOf(d)) :
              \E k \in 1..BOARD_SIZE : p = RayCell(d, k)

\* conductors were converted on a board that also holds an opponent stone and
\* a keystone of the owner outside the core, and paths were recorded upward
\* and to the right
C34_ConvertedAmongOtherStones ==
    /\ lastCmd = "activateResonance"
    /\ Cardinality(ChangedCells) >= 2
    /\ \E p, q \in DOMAIN arg.board :
          /\ ~InCore(p) /\ arg.board[p] = KeystoneOf(arg.player)
          /\ arg.board[q] = ConduitOf(OtherPlayer(arg.player))
    /\ PathOf(1) # << >> /\ PathOf(4) # << >>

---------------------------------------------------------------------------
(* Properties of placement, conversion and the recorded history, stated    *)
(* over Spec.                                                               *)

\* C24: stones are only ever placed on empty cells: placeStone(p) on a cell
\* that already holds a stone changes nothing.
C24_PlaceOnOccupiedCell ==
    \A p \in PlaceInputs :
        CellOf(store.board, p) # "empty" => placeStone(store, p) = store

\* any three cells of the placement window, named as a triple
AnyTriples ==
    {[stones |-> <<a, b, c>>, type |-> "L"] : a \in PlaceInputs, b \in PlaceInputs, c \in PlaceInputs}

\* C25: convertLShape(triple, i) changes exactly one cell, triple.stones[i],
\* from the active player's conductor to the active player's keystone and
\* finalizes the turn with one 'convert' move; it never produces a keystone
\* on an empty cell, on an opponent's stone or for a triple that is not a
\* bent triple of the active player's conductors.
C25_ConvertLShape ==
    \A l \in AnyTriples \cup LShapeInputs(store), i \in 0..2 :
        LET T == convertLShape(store, l, i)
            p == l.stones[i + 1]
        IN  T # store =>
                /\ Cells(l.stones) \in BentTriples(store.board, store.currentPlayer)
                /\ CellOf(store.board, p) = ConduitOf(store.currentPlayer)
                /\ T.board = BoardWith(store.board, p, KeystoneOf(store.currentPlayer))
                /\ Len(T.moveHistory) = Len(store.moveHistory) + 1
                /\ LastMove(T).moveType = "convert"
                /\ T.currentPlayer = OtherPlayer(store.currentPlayer)

\* C26: a Move is recorded only when a turn completes: the history does not
\* grow while the turn is still in its core-selection or focus-selection
\* sub-phase, so a placement that completes a core records nothing yet.
C26_NoMoveBeforeTurnCompletes ==
    \A p \in PlaceInputs :
        LET T == placeStone(store, p)
        IN  (Placeable(store) /\ T.gamePhase = "resonating") =>
                T.moveHistory = store.moveHistory

\* C27: the k-th move of moveHistory carries sequence number k, with no
\* duplicate and no skipped number, also after undo and confirmUndo.
C27_MovesAreNumberedInOrder ==
    \A k \in 1..Len(store.moveHistory) : store.moveHistory[k].moveNumber = k

\* the cells that hold a conductor before and a keystone after
Converted(before, after) ==
    {p \in DOMAIN before : /\ before[p] \in {"blackConduit", "whiteConduit"}
                           /\ CellOf(after, p) \in {"blackKeystone", "whiteKeystone"}}

ConvertedEvents(S) ==
    {i \in 1..Len(S.eventLog) : S.eventLog[i].eventType = "stone_converted"}

\* what one conversion command can make of the store
Conversions(S) ==
    ({convertLShape(S, l, i) : l \in LShapeInputs(S), i \in 0..2}
     \cup {selectFocusPosition(S, p) : p \in FocusInputs}) \ {S}

\* C28: every command that converts conductors into keystones (bent-triple
\* conversion or resonance) appends a stone_converted event listing exactly
\* the cells that changed from conductor to keystone, each once; none is
\* logged when nothing was converted.
C28_ConversionIsLogged ==
    \A T \in Conversions(store) :
        LET cells == Converted(store.board, T.board)
        IN  /\ cells # {} =>
                  \E i \in ConvertedEvents(T) :
                      /\ Cells(T.eventLog[i].convertedStones) = cells
                      /\ Len(T.eventLog[i].convertedStones) = Cardinality(cells)
            /\ cells = {} =>
                  Cardinality(ConvertedEvents(T)) <= Cardinality(ConvertedEvents(store))

\* C30: the snapshots of moveHistory form a chain: the before-snapshot of
\* each move has the same stones as the after-snapshot of the move before
\* it, and the first move's before-snapshot is the empty board, also after
\* undo, redo and confirmUndo followed by new moves.
C30_SnapshotsFormAChain ==
    /\ Len(store.moveHistory) > 0 => store.moveHistory[1].previousBoard = << >>
    /\ \A k \in 1..(Len(store.moveHistory) - 1) :
          store.moveHistory[k + 1].previousBoard = store.moveHistory[k].currentBoard

---------------------------------------------------------------------------
(* Properties of the board objects, stated over SpecHeap.                  *)

\* the board objects the store and the recorded moves refer to
HeldBoards ==
    {heap.board} \cup {heap.moves[k].previousBoard : k \in 1..Len(heap.moves)}
                 \cup {heap.moves[k].currentBoard : k \in 1..Len(heap.moves)}

\* C29: a recorded Move's before and after snapshots are never changed by a
\* later command (placement, conversion, resonance, undo, redo, confirmUndo):
\* every board mutation happens on a fresh clone, so the board object held
\* by the store or by a Move is never written in place.
C29_HeldBoardsAreNeverWritten ==
    [][\A id \in HeldBoards : heap'.objects[id] = heap.objects[id]]_vars

\* a placement was made on the board that undo() had taken from a move's
\* before-snapshot: two recorded moves refer to the same board object
C29_PlacedOnSharedSnapshot ==
    /\ lastCmd = "placeStone"
    /\ \E j, k \in 1..Len(heap.moves) :
          j < k /\ heap.moves[j].previousBoard = heap.moves[k].previousBoard

---------------------------------------------------------------------------
(* Properties of resetGame and of the legal-move set, stated over          *)
(* SpecReset.                                                               *)

EmptyCells(board) ==
    [row : 0..(BOARD_SIZE - 1), col : 0..(BOARD_SIZE - 1)] \ DOMAIN board

\* C31: whenever a placement would be accepted (phase placing, status
\* playing, not in history mode) availableMoves is exactly the set of empty
\* cells of the current board.
C31_AvailableMovesAreTheEmptyCells ==
    Placeable(store) => store.availableMoves = EmptyCells(store.board)

\* C32: every command, reset() included, runs to completion before the next
\* one is accepted: as long as the turn_started event and the refresh of a
\* reset are still to come, no later command has taken effect, so the new
\* game has no move and no event.
C32_ResetCompletesFirst ==
    timers > 0 => (store.moveHistory = << >> /\ store.eventLog = << >>)

---------------------------------------------------------------------------
(* Properties of the selection and of the phases, stated over Spec.        *)

\* C35: in every reachable state whose phase is placing, selectedCores is
\* empty and selectedCore and corePlayer are null.
C35_NoSelectionWhilePlacing ==
    store.gamePhase = "placing" =>
        /\ store.selectedCores = << >>
        /\ store.selectedCore = NoCore
        /\ store.corePlayer = "null"

\* the focal cell of a selected core was chosen, the resonance completed the
\* turn and the phase is placing again
C35_BackToPlacing ==
    /\ store.gamePhase = "placing"
    /\ lastCmd = "selectFocusPosition"
    /\ store.moveHistory # << >>
    /\ LastMove(store).moveType = "resonance"

\* C36: while the phase is resonating, selectedCores is non-empty, corePlayer
\* is the active player and every offered core is a 2x2 block wholly owned by
\* corePlayer on the current board; while the phase is selectingFocus,
\* selectedCore is one of the offered cores and corePlayer is not null.
C36_SelectionIsWellFormed ==
    /\ store.gamePhase = "resonating" =>
          /\ store.selectedCores # << >>
          /\ store.corePlayer = store.currentPlayer
          /\ \A core \in Cells(store.selectedCores) :
                /\ \E r, c \in 0..(BOARD_SIZE - 2) :
                      Cells(core.positions) = Block([row |-> r, col |-> c])
                /\ \A p \in Cells(core.positions) :
                      CellOf(store.board, p) \in OwnStones(store.corePlayer)
    /\ store.gamePhase = "selectingFocus" =>
          /\ store.selectedCore \in Cells(store.selectedCores)
          /\ store.corePlayer # "null"


---------------------------------------------------------------------------
(* Properties of the forward commands, stated over Spec and SpecHeap.      *)

\* the stores one forward command can leave behind
ForwardResults(S) ==
    {placeStone(S, p) : p \in PlaceInputs}
    \cup {convertLShape(S, l, k) : l \in LShapeInputs(S), k \in 0..2}
    \cup {selectCore(S, c) : c \in CoreInputs(S)}
    \cup {selectFocusPosition(S, p) : p \in FocusInputs}

\* a cell stays as it is or moves along empty, conductor, keystone of one player
MovesAlong(before, after) ==
    \/ before = after
    \/ before = "empty"
    \/ \E player \in Player : before = ConduitOf(player) /\ after = KeystoneOf(player)

\* C37: during forward play (placeStone, convertLShape, selectCore,
\* selectFocusPosition) every cell only moves along empty, a player's
\* conductor, the same player's keystone: a stone never disappears, never
\* changes owner and never reverts from keystone to conductor.
C37_StonesOnlyMoveForward ==
    \A T \in ForwardResults(store) :
        \A p \in (DOMAIN store.board) \cup (DOMAIN T.board) :
            MovesAlong(CellOf(store.board, p), CellOf(T.board, p))

\* C38: in every reachable state that is not in history mode and whose
\* status is 'playing', neither player's keystones satisfy the win
\* condition; this also holds after a win followed by undo, redo and
\* confirmUndo.
C38_NoWinWhilePlaying ==
    (~store.isHistoryMode /\ store.gameStatus = "playing") =>
        \A player \in Player : ~ReferenceWin(store.board, player)

\* the stores the direct activateResonance action can leave behind
ActivatedBy(S) ==
    {storeActivateResonance(S, c, p) : c \in CoreInputs(S), p \in PlaceInputs}

\* C39: in history mode no forward command (placeStone, convertLShape,
\* selectCore, selectFocusPosition, the direct activateResonance) changes
\* the board or the history.
C39_HistoryModeIsReadOnly ==
    store.isHistoryMode =>
        \A T \in ForwardResults(store) \cup ActivatedBy(store) :
            T.board = store.board /\ T.moveHistory = store.moveHistory

\* the stores a conversion of a bent triple of either player can leave behind
ConvertedBy(S) ==
    {convertLShape(S, l, k) :
        l \in UNION {SeqRange(detectLShapes(S.board, player)) : player \in Player},
        k \in 0..2}

\* C40: once the status is a win, placeStone, convertLShape, selectCore and
\* selectFocusPosition leave the board, the history and the status unchanged.
C40_NothingMovesAfterAWin ==
    store.gameStatus \in {"blackWin", "whiteWin"} =>
        \A T \in ForwardResults(store) \cup ConvertedBy(store) :
            /\ T.board = store.board
            /\ T.moveHistory = store.moveHistory
            /\ T.gameStatus = store.gameStatus

\* after a win a core was selected and the focal cell is awaited, with the
\* board, the history and the status of the win still in place
C40_CoreSelectedAfterAWin ==
    /\ store.gameStatus \in {"blackWin", "whiteWin"}
    /\ ~store.isHistoryMode
    /\ lastCmd = "selectCore"
    /\ store.gamePhase = "selectingFocus"
    /\ ReferenceWin(store.board, IF store.gameStatus = "blackWin" THEN "black" ELSE "white")

===========================================================================
